---------------------------- MODULE Spec2Model ----------------------------
(***************************************************************************)
(* A model of AzureStorageDriver (azure_blob_interface/azure_blob.py): the *)
(* blob container, the local disk a download writes to, the local tree an  *)
(* upload reads, and the driver's operations, one client call per step.    *)
(*                                                                         *)
(* Strings are sequences of one-character strings, so that a blob name's   *)
(* prefix test (name_starts_with) and pathlib's splitting into parts are   *)
(* computed, not assumed.  A Path is the sequence of its parts.            *)
(***************************************************************************)
EXTENDS Integers, Sequences, FiniteSets, TLC

\* ------------------------------------------------------------ bounds
\* The largest retries argument a caller passes.
MaxRetries == 2
\* The number of client or local failures injected in one behaviour.
MaxFaults == 3
\* The number of driver calls in one behaviour.
MaxCalls == 2

\* retries: int = 1 (download, upload, list_files).
DefaultRetries == 1

\* ------------------------------------------------------------ strings
Slash == "/"

\* str.startswith
StartsWith(s, p) == Len(p) <= Len(s) /\ SubSeq(s, 1, Len(p)) = p

\* The code points of the characters the model's names use.
CharOrd(c) ==
  CASE c = "/" -> 47
    [] c = "a" -> 97
    [] c = "b" -> 98
    [] c = "c" -> 99
    [] c = "s" -> 115
    [] c = "t" -> 116
    [] c = "u" -> 117
    [] c = "v" -> 118
    [] c = "x" -> 120
    [] OTHER -> 0

\* str.__lt__
RECURSIVE StrLess(_, _)
StrLess(s, t) ==
  IF t = <<>> THEN FALSE
  ELSE IF s = <<>> THEN TRUE
  ELSE IF Head(s) = Head(t) THEN StrLess(Tail(s), Tail(t))
  ELSE CharOrd(Head(s)) < CharOrd(Head(t))

\* pathlib.PurePosixPath(s).parts for a relative name: split at "/", empty
\* parts (a doubled or trailing slash) dropped.
RECURSIVE SplitFrom(_, _, _)
SplitFrom(s, cur, acc) ==
  IF s = <<>> THEN (IF cur = <<>> THEN acc ELSE Append(acc, cur))
  ELSE IF Head(s) = Slash
       THEN SplitFrom(Tail(s), <<>>, IF cur = <<>> THEN acc ELSE Append(acc, cur))
       ELSE SplitFrom(Tail(s), Append(cur, Head(s)), acc)

PathOf(s) == SplitFrom(s, <<>>, <<>>)

\* str(path): the parts joined by "/".
RECURSIVE PathStr(_)
PathStr(p) ==
  IF p = <<>> THEN <<>>
  ELSE IF Len(p) = 1 THEN p[1]
  ELSE p[1] \o <<Slash>> \o PathStr(Tail(p))

\* PurePath.__lt__: the parts compared as lists of strings.
RECURSIVE PathLess(_, _)
PathLess(p, q) ==
  IF q = <<>> THEN FALSE
  ELSE IF p = <<>> THEN TRUE
  ELSE IF Head(p) = Head(q) THEN PathLess(Tail(p), Tail(q))
  ELSE StrLess(Head(p), Head(q))

\* sorted(files) of the Paths made from a set of names: the names in the
\* order of their Paths.
RECURSIVE SortedNames(_)
SortedNames(S) ==
  IF S = {} THEN <<>>
  ELSE LET m == CHOOSE x \in S :
                  \A y \in S : ~PathLess(PathOf(y), PathOf(x))
       IN <<m>> \o SortedNames(S \ {m})

\* The names of a blob listing in the service's order (by name).
RECURSIVE ByName(_)
ByName(S) ==
  IF S = {} THEN <<>>
  ELSE LET m == CHOOSE x \in S : \A y \in S : ~StrLess(y, x)
       IN <<m>> \o ByName(S \ {m})

RECURSIVE MapPathStr(_)
MapPathStr(names) ==
  IF names = <<>> THEN <<>>
  ELSE <<PathStr(PathOf(Head(names)))>> \o MapPathStr(Tail(names))

\* ------------------------------------------------------------ the universe
N_a    == <<"a">>
N_ab   == <<"a", "/", "b">>
N_abc  == <<"a", "/", "b", "c">>
N_ab_c == <<"a", "/", "b", "/", "c">>
N_ab_s == <<"a", "/", "b", "/", "s">>
N_ab_s_c == <<"a", "/", "b", "/", "s", "/", "c">>
N_x    == <<"x">>

\* The blob names a container may hold.
Keys == {N_ab, N_abc, N_ab_c, N_ab_s_c}

\* The arguments callers pass as prefix or blob_path.
Prefixes == {N_a, N_ab, N_abc, N_ab_c, N_ab_s, N_x}

NoBlob == "NoBlob"
Absent == "Absent"
\* A file opened "wb" and not filled: empty or cut short.
Truncated == "Truncated"
Contents == {"v1", "v2"}

\* The except clauses, had they caught every exception.
TransientErrorsBroad ==
  {"ServiceRequestError", "ServiceResponseError", "HttpResponseError", "OSError"}

\* except (ServiceRequestError, ServiceResponseError, HttpResponseError)
TransientErrors == {"ServiceRequestError", "ServiceResponseError", "HttpResponseError"}
\* A failure that is none of the three classes the except clauses name
\* (a local I/O error).
OtherErrors == {"OSError"}
Errors == TransientErrors \cup OtherErrors

\* ------------------------------------------------------------ state
VARIABLES
  store,      \* the container: blob name -> content, or NoBlob
  diskFiles,  \* the local root of a download: blob name -> content, Absent
  diskDirs,   \* the directories under the local root (strings)
  pc,         \* where the driver is: "idle" between calls
  call,       \* the call in progress or last made, with its arguments
  ret,        \* its outcome: running, ok (with value) or raised (with err)
  lsf,        \* the list_files frame: prefix, recursive, retries, caller
  i,          \* the index of the running retry loop
  queue,      \* the blob names a download or a delete still has to process
  stack,      \* the frames of the recursive upload
  att,        \* history: the attempts of the latest retry loop
  xfers,      \* history: the per-file transfer events of the call
  flt,        \* history: the failures injected during the call
  faults,     \* failures still to inject
  ncalls,     \* calls made
  store0,     \* history: the container when the call started
  disk0,      \* history: diskFiles when the call started
  prev        \* history: the call made before this one, and how it ended

vars == <<store, diskFiles, diskDirs, pc, call, ret, lsf, i, queue, stack,
          att, xfers, flt, faults, ncalls, store0, disk0, prev>>

world == <<store, diskFiles, diskDirs>>

NoCall == [op |-> "none", prefix |-> <<>>, local |-> <<>>, overwrite |-> FALSE,
           retries |-> 0, recursive |-> FALSE, dst |-> <<>>]
NoRet == [status |-> "none", err |-> "none", value |-> <<>>]
NoLsf == [prefix |-> <<>>, recursive |-> FALSE, retries |-> 0, cont |-> "none"]
NoAtt == [site |-> "none", key |-> <<>>, retries |-> 0, outs |-> <<>>,
          res |-> "none", err |-> "none"]
NoPrev == [op |-> "none", local |-> <<>>, overwrite |-> FALSE, status |-> "none"]

Init ==
  /\ store \in [Keys -> {NoBlob, "v1"}]
  /\ diskFiles = [k \in Keys |-> Absent]
  /\ diskDirs = {}
  /\ pc = "idle"
  /\ call = NoCall
  /\ ret = NoRet
  /\ lsf = NoLsf
  /\ i = 0
  /\ queue = <<>>
  /\ stack = <<>>
  /\ att = NoAtt
  /\ xfers = <<>>
  /\ flt = <<>>
  /\ faults = MaxFaults
  /\ ncalls = 0
  /\ store0 = store
  /\ disk0 = diskFiles
  /\ prev = NoPrev

\* ------------------------------------------------------------ the client
\* The listing, had name_starts_with matched whole path segments only.
list_blobsBySegment(st, p) ==
  {k \in Keys : st[k] # NoBlob /\ (k = p \/ StartsWith(k, p \o <<Slash>>))}

\* ContainerClient.list_blobs(name_starts_with=p): the stored names that
\* start with p.
list_blobs(st, p) == {k \in Keys : st[k] # NoBlob /\ StartsWith(k, p)}

\* The position of the first "/" of s, 0 when it has none.
FirstSlash(s) ==
  IF \E n \in 1..Len(s) : s[n] = Slash
  THEN CHOOSE n \in 1..Len(s) : s[n] = Slash /\ \A m \in 1..(n - 1) : s[m] # Slash
  ELSE 0

\* ContainerClient.walk_blobs(name_starts_with=p, delimiter="/"): one item
\* per blob directly under p, and one (named up to and with the delimiter)
\* per virtual directory under p.
walk_blobs(st, p) ==
  { LET rest == SubSeq(k, Len(p) + 1, Len(k))
        n == FirstSlash(rest)
    IN IF n = 0 THEN k ELSE p \o SubSeq(rest, 1, n) : k \in list_blobs(st, p) }

\* What one client (or local file) call does: it succeeds, or, while there
\* are failures left to inject, fails.
Outcomes == {"ok"} \cup (IF faults > 0 THEN Errors ELSE {})

\* ------------------------------------------------------------ the driver's functions
\* exists, had it always answered no.
existsNever(st, blob_path) == FALSE

\* exists: bool(list(list_blobs(name_starts_with=blob_path)))
exists(st, blob_path) == list_blobs(st, blob_path) # {}

\* prefix_with_slash = f"{str(Path(prefix))}/"
PrefixWithSlash(prefix) == PathStr(PathOf(prefix)) \o <<Slash>>

\* The recursive listing, had it been given prefix_with_slash as the other
\* listing is.
RecursiveListingSlash(st, prefix) ==
  MapPathStr(SortedNames(list_blobs(st, PrefixWithSlash(prefix))))

\* list_files, recursive: sorted(Path(b["name"]) for b in list_blobs(prefix)).
RecursiveListing(st, prefix) == MapPathStr(SortedNames(list_blobs(st, prefix)))

\* list_files, not recursive: Path(f["name"]) for f in walk_blobs(prefix/).
WalkListing(st, prefix) ==
  MapPathStr(SortedNames(walk_blobs(st, PrefixWithSlash(prefix))))

\* The test of the last try, with tries one too many.
IsLastTryLate(idx, retries) == idx + 1 = retries + 2

\* The test of the last try, with retries ignored: every try is the last.
IsLastTryNoRetry(idx, retries) == idx + 1 = 1

\* if i + 1 == tries: raise e   (tries = retries + 1)
IsLastTry(idx, retries) == idx + 1 = retries + 1

\* ------------------------------------------------------------ steps shared by the calls
Running == [status |-> "running", err |-> "none", value |-> <<>>]

\* The call returns v.
Return(v) == pc' = "idle" /\ ret' = [status |-> "ok", err |-> "none", value |-> v]

\* The call raises e: nothing in the driver catches it.
Raise(e) == pc' = "idle" /\ ret' = [status |-> "raised", err |-> e, value |-> <<>>]

\* One client call at `site` ended as o.
Inject(site, o) ==
  /\ faults' = IF o = "ok" THEN faults ELSE faults - 1
  /\ flt' = IF o = "ok" THEN flt ELSE Append(flt, [site |-> site, err |-> o])

\* A retry loop starts: tries = retries + 1; for i in range(tries).
NewAtt(site, key, retries) ==
  [site |-> site, key |-> key, retries |-> retries, outs |-> <<>>,
   res |-> "pending", err |-> "none"]

\* One more attempt of the running loop ended as o, and the loop went on
\* (res "pending"), left by break or return ("ok"), or raised.
Attempted(o, res) ==
  [att EXCEPT !.outs = Append(@, o), !.res = res,
              !.err = IF res = "raised" THEN o ELSE "none"]

\* Where a call starts, and the list_files frame it starts with: download
\* lists with list_files(prefix, recursive=True), retries left to default.
PcOf(c) ==
  CASE c.op = "exists" -> "ex"
    [] c.op = "delete" -> "del_list"
    [] c.op = "copy" -> "copy"
    [] c.op = "list_files" -> "ls_try"
    [] c.op = "download" -> "ls_try"
    [] c.op = "upload" -> "up"

LsfOf(c) ==
  CASE c.op = "list_files" ->
         [prefix |-> c.prefix, recursive |-> c.recursive, retries |-> c.retries,
          cont |-> "ret"]
    [] c.op = "download" ->
         [prefix |-> c.prefix, recursive |-> TRUE, retries |-> DefaultRetries,
          cont |-> "download"]
    [] OTHER -> NoLsf

\* ------------------------------------------------------------ the local tree an upload reads
SegA == <<"a">>
SegB == <<"b">>
SegC == <<"c">>
SegS == <<"s">>
SegT == <<"t">>
SegU == <<"u">>

\* t/b is a directory holding the file c and the directory s, which holds
\* the file c; u/b is a file.
LocalDirs == {<<SegT, SegB>>, <<SegT, SegB, SegS>>}
LocalFiles == {<<SegT, SegB, SegC>>, <<SegT, SegB, SegS, SegC>>, <<SegU, SegB>>}
\* What callers pass as path_local, and as path_upload.
LocalRoots == {<<SegT, SegB>>, <<SegU, SegB>>}
UploadTo == <<SegA>>
\* of.read(): the bytes of every local file.
LocalContent == "v2"

is_dir(p) == p \in LocalDirs

RECURSIVE SortedPaths(_)
SortedPaths(S) ==
  IF S = {} THEN <<>>
  ELSE LET m == CHOOSE x \in S : \A y \in S : ~PathLess(y, x)
       IN <<m>> \o SortedPaths(S \ {m})

\* root_file.glob("*"), each child made relative to path_local.
GlobCarries(path_local, root_file) ==
  LET kids == {q \in LocalDirs \cup LocalFiles :
                 Len(q) = Len(root_file) + 1 /\ SubSeq(q, 1,
                       Len(root_file)) = root_file}
      sorted == SortedPaths(kids)
  IN [n \in 1..Len(sorted) |-> SubSeq(sorted[n], Len(path_local) + 1, Len(sorted[n]))]

\* One invocation of upload(path_local, path_upload, overwrite, carry, retries).
Frame(path_local, carry, retries) ==
  LET root_file == path_local \o carry
  IN [carry |-> carry, retries |-> retries, isdir |-> is_dir(root_file),
      todo |-> IF is_dir(root_file) THEN GlobCarries(path_local, root_file) ELSE <<>>,
      urls |-> <<>>]

\* path_upload / last_dir / carry.parent / root_file.name, as upload_blob's name.
Dest(path_local, carry) ==
  LET root_file == path_local \o carry
      last_dir == IF is_dir(path_local) THEN <<path_local[Len(path_local)]>> ELSE <<>>
      parent == IF carry = <<>> THEN <<>> ELSE SubSeq(carry, 1, Len(carry) - 1)
  IN PathStr(UploadTo \o last_dir \o parent \o <<root_file[Len(root_file)]>>)

\* What upload returns: blob_client.url, None, or the list blob_urls.
UrlVal(k) == [t |-> "url", k |-> k, items |-> <<>>]
NoneVal == [t |-> "none", k |-> <<>>, items |-> <<>>]
ListVal(xs) == [t |-> "list", k |-> <<>>, items |-> xs]

\* The skip of _upload_file, never taken.
SkipUploadNever(overwrite, present) == FALSE

\* if not overwrite and self.exists(path_upload): return
SkipUpload(overwrite, present) == ~overwrite /\ present

\* ------------------------------------------------------------ the local disk a download writes
\* The directories out_path.parent.mkdir(parents=True) needs to exist.
RECURSIVE Parents(_)
Parents(parts) ==
  IF Len(parts) <= 1 THEN {}
  ELSE LET up == SubSeq(parts, 1, Len(parts) - 1)
       IN {PathStr(up)} \cup Parents(up)

IsFile(files, name) == name \in Keys /\ files[name] # Absent

\* out_path.exists()
PathExists(files, dirs, name) == IsFile(files, name) \/ name \in dirs

\* The skip of download, its test of the path turned round.
SkipDownloadInverted(overwrite, present) == ~overwrite /\ ~present

\* if not overwrite and out_path.exists(): continue
SkipDownload(overwrite, present) == ~overwrite /\ present

\* ------------------------------------------------------------ a call starts
Start(c) ==
  /\ pc = "idle"
  /\ call' = c
  /\ ncalls' = ncalls + 1
  /\ ret' = Running
  /\ pc' = PcOf(c)
  /\ lsf' = LsfOf(c)
  /\ att' = IF LsfOf(c) = NoLsf THEN NoAtt
            ELSE NewAtt("list", c.prefix, LsfOf(c).retries)
  /\ i' = 0
  /\ queue' = <<>>
  /\ stack' = IF c.op = "upload" THEN <<Frame(c.local, <<>>, c.retries)>> ELSE <<>>
  /\ xfers' = <<>>
  /\ flt' = <<>>
  /\ store0' = store
  /\ disk0' = diskFiles
  /\ prev' = [op |-> call.op, local |-> call.local, overwrite |-> call.overwrite,
              status |-> ret.status]
  /\ UNCHANGED <<world, faults>>

RetriesArgs == 0..MaxRetries

CallExists ==
  /\ ncalls = 0
  /\ \E p \in Prefixes : Start([NoCall EXCEPT !.op = "exists", !.prefix = p])

CallDelete ==
  /\ ncalls = 0
  /\ \E p \in Prefixes : Start([NoCall EXCEPT !.op = "delete", !.prefix = p])

CallCopy ==
  /\ ncalls = 0
  /\ \E src \in Keys, dst \in Keys :
       Start([NoCall EXCEPT !.op = "copy", !.prefix = src, !.dst = dst])

CallListFiles ==
  /\ ncalls = 0
  /\ \E p \in Prefixes, rec \in BOOLEAN, n \in RetriesArgs :
       Start([NoCall EXCEPT !.op = "list_files", !.prefix = p, !.recursive = rec,
                            !.retries = n])

CallDownload ==
  /\ ncalls = 0
  /\ \E p \in Prefixes, ow \in BOOLEAN, n \in RetriesArgs :
       Start([NoCall EXCEPT !.op = "download", !.prefix = p, !.overwrite = ow,
                            !.retries = n])

CallUpload ==
  /\ ncalls = 0
  /\ \E pl \in LocalRoots, ow \in BOOLEAN, n \in RetriesArgs :
       Start([NoCall EXCEPT !.op = "upload", !.local = pl, !.overwrite = ow,
                            !.retries = n])

\* The caller makes the same call again.
Repeat ==
  /\ 0 < ncalls /\ ncalls < MaxCalls
  /\ Start(call)

\* The caller, whose upload of a file has returned, downloads the blob the
\* upload was for: download(str(path_upload / path_local.name)).
CallDownloadUploaded ==
  /\ 0 < ncalls /\ ncalls < MaxCalls
  /\ call.op = "upload" /\ ~is_dir(call.local) /\ ret.status = "ok"
  /\ \E ow \in BOOLEAN, n \in RetriesArgs :
       Start([NoCall EXCEPT !.op = "download", !.prefix = Dest(call.local, <<>>),
                            !.overwrite = ow, !.retries = n])

\* ------------------------------------------------------------ exists, delete, copy
fixed == <<call, ncalls, store0, disk0, prev>>

\* Whether the service carried a write out: it did when the call succeeded,
\* it may have when only the response was lost, and it did not otherwise.
Applied(o) ==
  IF o = "ok" THEN {TRUE}
  ELSE IF o = "ServiceResponseError" THEN BOOLEAN
  ELSE {FALSE}

\* exists(blob_path): one list_blobs call, nothing around it.
ExistsStep ==
  /\ pc = "ex"
  /\ \E o \in Outcomes :
       /\ Inject("exists", o)
       /\ IF o = "ok" THEN Return(exists(store, call.prefix)) ELSE Raise(o)
  /\ UNCHANGED <<world, lsf, i, queue, stack, att, xfers, fixed>>

\* delete(prefix): blob_file_paths = list_blobs(name_starts_with=prefix)
DeleteList ==
  /\ pc = "del_list"
  /\ \E o \in Outcomes :
       /\ Inject("delete", o)
       /\ IF o = "ok"
          THEN /\ pc' = "del_next"
               /\ queue' = ByName(list_blobs(store, call.prefix))
               /\ UNCHANGED ret
          ELSE Raise(o) /\ UNCHANGED queue
  /\ UNCHANGED <<world, lsf, i, stack, att, xfers, fixed>>

\* delete(prefix): for file_path in blob_file_paths: delete_blob(file_path)
DeleteNext ==
  /\ pc = "del_next"
  /\ IF queue = <<>>
     THEN Return(NoneVal) /\ UNCHANGED <<store, queue, faults, flt>>
     ELSE \E o \in Outcomes : \E done \in Applied(o) :
            /\ Inject("delete", o)
            /\ store' = IF done THEN [store EXCEPT ![Head(queue)] = NoBlob] ELSE store
            /\ IF o = "ok"
               THEN queue' = Tail(queue) /\ UNCHANGED <<pc, ret>>
               ELSE Raise(o) /\ UNCHANGED queue
  /\ UNCHANGED <<diskFiles, diskDirs, lsf, i, stack, att, xfers, fixed>>

\* copy(src_path, dst_path): dst_blob.start_copy_from_url(src_blob.url); a
\* source that is not stored is the service's HttpResponseError.
CopyStep ==
  /\ pc = "copy"
  /\ \E o \in Outcomes : \E done \in Applied(o) :
       IF store[call.prefix] = NoBlob /\ o = "ok"
       THEN Raise("HttpResponseError") /\ UNCHANGED <<store, faults, flt>>
       ELSE /\ Inject("copy", o)
            /\ store' = IF done /\ store[call.prefix] # NoBlob
                        THEN [store EXCEPT ![call.dst] = store[call.prefix]]
                        ELSE store
            /\ IF o = "ok" THEN Return(NoneVal) ELSE Raise(o)
  /\ UNCHANGED <<diskFiles, diskDirs, lsf, i, queue, stack, att, xfers, fixed>>

\* ------------------------------------------------------------ list_files
\* list_files returns v: to its caller, or into download's loop.
ListDone(v) ==
  IF lsf.cont = "ret"
  THEN Return(v) /\ UNCHANGED queue
  ELSE pc' = "dl_next" /\ queue' = v /\ UNCHANGED ret

\* One pass of list_files' retry loop: the listing, inside the try.
ListAttempt ==
  /\ pc = "ls_try"
  /\ \E o \in Outcomes :
       /\ Inject("list", o)
       /\ IF o = "ok"
          THEN /\ att' = Attempted(o, "ok")
               /\ i' = i
               /\ IF lsf.recursive
                  THEN ListDone(RecursiveListing(store, lsf.prefix))
                  ELSE IF WalkListing(store, lsf.prefix) = <<>>
                  THEN pc' = "ls_exists" /\ UNCHANGED <<ret, queue>>
                  ELSE ListDone(WalkListing(store, lsf.prefix))
          ELSE IF o \in TransientErrors /\ ~IsLastTry(i, lsf.retries)
          THEN /\ att' = Attempted(o, "pending")
               /\ i' = i + 1
               /\ UNCHANGED <<pc, ret, queue>>
          ELSE /\ att' = Attempted(o, "raised")
               /\ i' = i
               /\ Raise(o)
               /\ UNCHANGED queue
  /\ UNCHANGED <<world, lsf, stack, xfers, fixed>>

\* if not files: return [prefix] if self.exists(prefix) else []
ListExists ==
  /\ pc = "ls_exists"
  /\ \E o \in Outcomes :
       /\ Inject("exists", o)
       /\ IF o = "ok"
          THEN Return(IF exists(store, lsf.prefix) THEN <<lsf.prefix>> ELSE <<>>)
          ELSE Raise(o)
  /\ UNCHANGED <<world, lsf, i, queue, stack, att, xfers, fixed>>

\* ------------------------------------------------------------ download
Event(f, ev) == [f |-> f, ev |-> ev]

\* The failure of a file swallowed: the loop goes on to the next file.
DownloadSwallow(e) == pc' = "dl_next" /\ queue' = Tail(queue) /\ UNCHANGED ret

\* raise e in download's loop over blob_file_paths: the loop is left and the
\* call raises.
DownloadRaise(e) == Raise(e) /\ UNCHANGED queue

\* The head of download's for loop, up to the retry loop: out_path, the
\* mkdir of its parents, and the skip of a path that exists.
DownloadNext ==
  /\ pc = "dl_next"
  /\ IF queue = <<>>
     THEN Return(NoneVal) /\ UNCHANGED <<queue, diskDirs, xfers, att, i>>
     ELSE LET k == Head(queue)
              ups == Parents(PathOf(k))
          IN IF \E d \in ups : IsFile(diskFiles, d)
             THEN /\ DownloadRaise("OSError")
                  /\ xfers' = Append(xfers, Event(k, "fail"))
                  /\ UNCHANGED <<diskDirs, att, i>>
             ELSE /\ diskDirs' = diskDirs \cup ups
                  /\ IF SkipDownload(call.overwrite, PathExists(diskFiles, diskDirs, k))
                     THEN /\ queue' = Tail(queue)
                          /\ xfers' = Append(xfers, Event(k, "skip"))
                          /\ UNCHANGED <<pc, ret, att, i>>
                     ELSE /\ pc' = "dl_try"
                          /\ i' = 0
                          /\ att' = NewAtt("read", k, call.retries)
                          /\ UNCHANGED <<queue, ret, xfers>>
  /\ UNCHANGED <<store, diskFiles, lsf, stack, flt, faults, fixed>>

\* One pass of download's retry loop: open(out_path, "wb"), download_blob,
\* readinto; and the except clause.
DownloadAttempt ==
  /\ pc = "dl_try"
  /\ LET k == Head(queue)
     IN IF k \in diskDirs
        THEN \* open() of a directory
             /\ att' = Attempted("OSError", "raised")
             /\ xfers' = xfers \o <<Event(k, "attempt"), Event(k, "fail")>>
             /\ DownloadRaise("OSError")
             /\ UNCHANGED <<diskFiles, i, faults, flt>>
        ELSE \E o \in Outcomes :
               LET e == IF o = "ok" /\ store[k] = NoBlob THEN "HttpResponseError" ELSE o
               IN /\ Inject("read", o)
                  /\ IF e = "ok"
                     THEN /\ diskFiles' = [diskFiles EXCEPT ![k] = store[k]]
                          /\ att' = Attempted(e, "ok")
                          /\ xfers' = xfers \o <<Event(k, "attempt"), Event(k, "ok")>>
                          /\ pc' = "dl_next"
                          /\ queue' = Tail(queue)
                          /\ UNCHANGED <<ret, i>>
                     ELSE IF e \in TransientErrors /\ ~IsLastTry(i, call.retries)
                     THEN \* out_path.unlink(missing_ok=True); continue
                          /\ diskFiles' = [diskFiles EXCEPT ![k] = Absent]
                          /\ att' = Attempted(e, "pending")
                          /\ xfers' = Append(xfers, Event(k, "attempt"))
                          /\ i' = i + 1
                          /\ UNCHANGED <<pc, ret, queue>>
                     ELSE \* raise e, or an error no clause catches: the file
                          \* stays as open() and the failed read left it
                          /\ \E opened \in (IF e \in TransientErrors THEN {TRUE} ELSE BOOLEAN) :
                               diskFiles' = IF opened
                                            THEN [diskFiles EXCEPT ![k] = Truncated]
                                            ELSE diskFiles
                          /\ att' = Attempted(e, "raised")
                          /\ xfers' = xfers \o <<Event(k, "attempt"), Event(k, "fail")>>
                          /\ DownloadRaise(e)
                          /\ UNCHANGED i
  /\ UNCHANGED <<store, diskDirs, lsf, stack, fixed>>

\* ------------------------------------------------------------ upload
\* upload returns v to the invocation that called it, which appends it to
\* blob_urls; the outermost returns it to the caller.
PopWith(v) ==
  IF Len(stack) = 1
  THEN stack' = <<>> /\ Return(v)
  ELSE /\ stack' = [SubSeq(stack, 1, Len(stack) - 1) EXCEPT
                      ![Len(stack) - 1].urls = Append(@, v)]
       /\ pc' = "up"
       /\ UNCHANGED ret

\* raise e in _upload_file: no invocation of upload catches it.
UploadRaise(e) == Raise(e) /\ UNCHANGED stack

\* The body of upload up to a client call: a directory recurses into its
\* next child (overwrite and carry passed on, retries not) or returns
\* blob_urls; a file goes to _upload_file with this invocation's retries.
UploadStep ==
  /\ pc = "up"
  /\ LET top == stack[Len(stack)]
     IN IF top.isdir
        THEN IF top.todo # <<>>
             THEN /\ stack' = [stack EXCEPT ![Len(stack)].todo = Tail(@)]
                              \o <<Frame(call.local, Head(top.todo), DefaultRetries)>>
                  /\ UNCHANGED <<pc, ret, att, i>>
             ELSE PopWith(ListVal(top.urls)) /\ UNCHANGED <<att, i>>
        ELSE IF ~call.overwrite
             THEN pc' = "up_exists" /\ UNCHANGED <<stack, ret, att, i>>
             ELSE /\ pc' = "up_try"
                  /\ i' = 0
                  /\ att' = NewAtt("write", Dest(call.local, top.carry), top.retries)
                  /\ UNCHANGED <<stack, ret>>
  /\ UNCHANGED <<world, lsf, queue, xfers, flt, faults, fixed>>

\* _upload_file: if not overwrite and self.exists(path_upload): return
UploadExists ==
  /\ pc = "up_exists"
  /\ LET top == stack[Len(stack)]
         dest == Dest(call.local, top.carry)
     IN \E o \in Outcomes :
          /\ Inject("exists", o)
          /\ IF o # "ok"
             THEN /\ UploadRaise(o)
                  /\ xfers' = Append(xfers, Event(dest, "fail"))
                  /\ UNCHANGED <<att, i>>
             ELSE IF SkipUpload(call.overwrite, exists(store, dest))
             THEN /\ PopWith(NoneVal)
                  /\ xfers' = Append(xfers, Event(dest, "skip"))
                  /\ UNCHANGED <<att, i>>
             ELSE /\ pc' = "up_try"
                  /\ i' = 0
                  /\ att' = NewAtt("write", dest, top.retries)
                  /\ UNCHANGED <<stack, ret, xfers>>
  /\ UNCHANGED <<world, lsf, queue, fixed>>

\* One pass of _upload_file's retry loop: open(path_local, "rb"),
\* upload_blob(overwrite=True); and the except clause.
UploadAttempt ==
  /\ pc = "up_try"
  /\ LET top == stack[Len(stack)]
         dest == Dest(call.local, top.carry)
     IN \E o \in Outcomes : \E done \in Applied(o) :
          /\ Inject("write", o)
          /\ store' = IF done THEN [store EXCEPT ![dest] = LocalContent] ELSE store
          /\ IF o = "ok"
             THEN /\ att' = Attempted(o, "ok")
                  /\ xfers' = xfers \o <<Event(dest, "attempt"), Event(dest, "ok")>>
                  /\ PopWith(UrlVal(dest))
                  /\ UNCHANGED i
             ELSE IF o \in TransientErrors /\ ~IsLastTry(i, top.retries)
             THEN /\ att' = Attempted(o, "pending")
                  /\ xfers' = Append(xfers, Event(dest, "attempt"))
                  /\ i' = i + 1
                  /\ UNCHANGED <<pc, ret, stack>>
             ELSE /\ att' = Attempted(o, "raised")
                  /\ xfers' = xfers \o <<Event(dest, "attempt"), Event(dest, "fail")>>
                  /\ UploadRaise(o)
                  /\ UNCHANGED i
  /\ UNCHANGED <<diskFiles, diskDirs, lsf, queue, fixed>>

\* ------------------------------------------------------------ the specification
Next ==
  \/ CallExists \/ CallDelete \/ CallCopy \/ CallListFiles \/ CallDownload
  \/ CallUpload \/ Repeat \/ CallDownloadUploaded
  \/ ExistsStep \/ DeleteList \/ DeleteNext \/ CopyStep
  \/ ListAttempt \/ ListExists
  \/ DownloadNext \/ DownloadAttempt
  \/ UploadStep \/ UploadExists \/ UploadAttempt

Spec == Init /\ [][Next]_vars

\* ------------------------------------------------------------ filepaths.py: strings
Digits == {"0", "1", "2", "3", "4", "5", "6", "7", "8", "9"}
Uppers ==
  {"A", "B", "C", "D", "E", "F", "G", "H", "I", "J", "K", "L", "M",
   "N", "O", "P", "Q", "R", "S", "T", "U", "V", "W", "X", "Y", "Z"}
DigitSeq == <<"0", "1", "2", "3", "4", "5", "6", "7", "8", "9">>
UpperSeq ==
  <<"A", "B", "C", "D", "E", "F", "G", "H", "I", "J", "K", "L", "M",
    "N", "O", "P", "Q", "R", "S", "T", "U", "V", "W", "X", "Y", "Z">>
LowerSeq ==
  <<"a", "b", "c", "d", "e", "f", "g", "h", "i", "j", "k", "l", "m",
    "n", "o", "p", "q", "r", "s", "t", "u", "v", "w", "x", "y", "z">>

\* str.lower()
lower(s) ==
  [n \in 1..Len(s) |->
     IF s[n] \in Uppers
     THEN LowerSeq[CHOOSE k \in 1..26 : UpperSeq[k] = s[n]]
     ELSE s[n]]

\* int(s) of a string of digits.
RECURSIVE int(_)
int(s) ==
  IF s = <<>> THEN 0
  ELSE int(SubSeq(s, 1, Len(s) - 1)) * 10
         + (CHOOSE v \in 0..9 : DigitSeq[v + 1] = s[Len(s)])

\* "{}".format(n) of an int n >= 0: its decimal digits, none added.
RECURSIVE FormatPlain(_)
FormatPlain(n) ==
  IF n < 10 THEN <<DigitSeq[n + 1]>>
  ELSE FormatPlain(n \div 10) \o <<DigitSeq[(n % 10) + 1]>>

\* "{:02d}".format(n): zero-padded to a width of 2.
Format02d(n) ==
  IF Len(FormatPlain(n)) < 2 THEN <<"0">> \o FormatPlain(n) ELSE FormatPlain(n)

\* Whether the literal lit stands in s at position p.
IsAt(s, p, lit) == p + Len(lit) - 1 <= Len(s) /\ SubSeq(s, p, p + Len(lit) - 1) = lit

\* Whether s[a..b] are all characters of the class S.
AllIn(s, a, b, S) == b <= Len(s) /\ \A n \in a..b : s[n] \in S

Least(S) == CHOOSE x \in S : \A y \in S : x <= y
Greatest(S) == CHOOSE x \in S : \A y \in S : y <= x

\* What a function of filepaths.py does: it returns v, or raises e with
\* the message msg.
OkRet(v) == [status |-> "ok", err |-> "none", value |-> v]
ErrRet(e, msg) == [status |-> "raised", err |-> e, value |-> msg]

\* Path / segment
Join(path, seg) == path \o PathOf(seg)

\* ------------------------------------------------------------ filepaths.py: Sentinel-2
\* "_(T\d{2}\D{3})_" with its "_" at u.
S2TileAt(s, u) ==
  /\ u + 7 <= Len(s)
  /\ s[u] = "_" /\ s[u + 1] = "T"
  /\ AllIn(s, u + 2, u + 3, Digits)
  /\ \A n \in (u + 4)..(u + 6) : s[n] \notin Digits
  /\ s[u + 7] = "_"

\* "_.*_.*_(T\d{2}\D{3})_" after a head matched at p: where the "_" before
\* the tile may stand, another "_" lying between the head and it.
S2Tiles(s, p) ==
  {u \in (p + 28)..Len(s) :
     S2TileAt(s, u) /\ \E u1 \in (p + 27)..(u - 1) : s[u1] = "_"}

\* "S2[ABCD]_MSI(L[12][AC])_(\d{4})(\d{2})(\d{2})T\d{6}_.*_.*_(T\d{2}\D{3})_"
\* matched at p.
S2MatchAt(s, p) ==
  /\ p + 26 <= Len(s)
  /\ IsAt(s, p, <<"S", "2">>) /\ s[p + 2] \in {"A", "B", "C", "D"}
  /\ IsAt(s, p + 3, <<"_", "M", "S", "I">>)
  /\ s[p + 7] = "L" /\ s[p + 8] \in {"1", "2"} /\ s[p + 9] \in {"A", "C"}
  /\ s[p + 10] = "_"
  /\ AllIn(s, p + 11, p + 18, Digits)
  /\ s[p + 19] = "T"
  /\ AllIn(s, p + 20, p + 25, Digits)
  /\ s[p + 26] = "_"
  /\ S2Tiles(s, p) # {}

\* re.search(...).groups(): the leftmost match, its ".*" greedy; no match is
\* None, and None.groups() an AttributeError.
parse_s2_path(s2_path) ==
  LET ps == {p \in 1..Len(s2_path) : S2MatchAt(s2_path, p)}
  IN IF ps = {} THEN ErrRet("AttributeError", <<>>)
     ELSE LET p == Least(ps)
              u == Greatest(S2Tiles(s2_path, p))
          IN OkRet([level |-> SubSeq(s2_path, p + 7, p + 9),
                    tile |-> SubSeq(s2_path, u + 1, u + 6),
                    year |-> int(SubSeq(s2_path, p + 11, p + 14)),
                    month |-> int(SubSeq(s2_path, p + 15, p + 16)),
                    day |-> int(SubSeq(s2_path, p + 17, p + 18))])

get_s2_path(level, tile, year, month, day) ==
  Join(Join(Join(Join(Join(<<<<"S", "e", "n", "t", "i", "n", "e", "l", "-", "2">>>>,
        level), tile),
                 FormatPlain(year)), Format02d(month)), Format02d(day))

\* get_s2_path(*parse_s2_path(product_filename))
S2Path(product_filename) ==
  LET r == parse_s2_path(product_filename)
  IN IF r.status = "raised" THEN r
     ELSE OkRet(get_s2_path(r.value.level, r.value.tile, r.value.year,
                            r.value.month, r.value.day))

\* ------------------------------------------------------------ filepaths.py: Sentinel-3
\* "S3[ABCD]_([A-Z]{2})_(\d)_[A-Z]{3}____(\d{4})(\d{2})(\d{2})T\d{6}_"
\* matched at p.
S3MatchAt(s, p) ==
  /\ p + 31 <= Len(s)
  /\ IsAt(s, p, <<"S", "3">>) /\ s[p + 2] \in {"A", "B", "C", "D"}
  /\ s[p + 3] = "_"
  /\ AllIn(s, p + 4, p + 5, Uppers)
  /\ s[p + 6] = "_"
  /\ s[p + 7] \in Digits
  /\ s[p + 8] = "_"
  /\ AllIn(s, p + 9, p + 11, Uppers)
  /\ IsAt(s, p + 12, <<"_", "_", "_", "_">>)
  /\ AllIn(s, p + 16, p + 23, Digits)
  /\ s[p + 24] = "T"
  /\ AllIn(s, p + 25, p + 30, Digits)
  /\ s[p + 31] = "_"

parse_s3_path(s3_path) ==
  LET ps == {p \in 1..Len(s3_path) : S3MatchAt(s3_path, p)}
  IN IF ps = {} THEN ErrRet("AttributeError", <<>>)
     ELSE LET p == Least(ps)
          IN OkRet([sensor |-> SubSeq(s3_path, p + 4, p + 5),
                    level |-> SubSeq(s3_path, p + 7, p + 7),
                    year |-> int(SubSeq(s3_path, p + 16, p + 19)),
                    month |-> int(SubSeq(s3_path, p + 20, p + 21)),
                    day |-> int(SubSeq(s3_path, p + 22, p + 23))])

get_s3_path(aoi, sensor, level, year, month, day) ==
  LET name == IF sensor = <<"O", "L">> THEN <<"O", "L", "C", "I">>
              ELSE IF sensor = <<"S", "L">> THEN <<"S", "L", "S", "T", "R">>
              ELSE IF sensor = <<"S", "Y">> THEN <<"S", "Y", "N", "E", "R", "G", "Y">>
              ELSE sensor
      lvl == IF level[1] # "L" THEN <<"L">> \o level ELSE level
  IN Join(Join(Join(Join(Join(Join(<<<<"S", "e", "n", "t", "i", "n", "e", "l", "-",
        "3">>>>, name), lvl), aoi),
                    FormatPlain(year)), Format02d(month)), Format02d(day))

\* get_s3_path(aoi, *parse_s3_path(product_filename))
S3Path(aoi, product_filename) ==
  LET r == parse_s3_path(product_filename)
  IN IF r.status = "raised" THEN r
     ELSE OkRet(get_s3_path(aoi, r.value.sensor, r.value.level, r.value.year,
                            r.value.month, r.value.day))

\* ------------------------------------------------------------ filepaths.py: Landsat
\* "L[CE]0\d_([A-Z0-9]*)_\d{6}_(\d{4})(\d{2})(\d{2})_" matched at p, the
\* collection ending before the "_" at q.
LandsatMatchAt(s, p, q) ==
  /\ p + 4 <= Len(s) /\ p + 5 <= q /\ q + 16 <= Len(s)
  /\ s[p] = "L" /\ s[p + 1] \in {"C", "E"} /\ s[p + 2] = "0"
  /\ s[p + 3] \in Digits /\ s[p + 4] = "_"
  /\ AllIn(s, p + 5, q - 1, Uppers \cup Digits)
  /\ s[q] = "_"
  /\ AllIn(s, q + 1, q + 6, Digits)
  /\ s[q + 7] = "_"
  /\ AllIn(s, q + 8, q + 15, Digits)
  /\ s[q + 16] = "_"

parse_landsat_path(landsat_path) ==
  LET n == Len(landsat_path)
      ps == {p \in 1..n : \E q \in 1..n : LandsatMatchAt(landsat_path, p, q)}
  IN IF ps = {} THEN ErrRet("AttributeError", <<>>)
     ELSE LET p == Least(ps)
              q == Greatest({x \in 1..n : LandsatMatchAt(landsat_path, p, x)})
          IN OkRet([collection |-> SubSeq(landsat_path, p + 5, q - 1),
                    year |-> int(SubSeq(landsat_path, q + 8, q + 11)),
                    month |-> int(SubSeq(landsat_path, q + 12, q + 13)),
                    day |-> int(SubSeq(landsat_path, q + 14, q + 15))])

get_landsat_path(aoi, collection, year, month, day) ==
  Join(Join(Join(Join(Join(<<<<"L", "a", "n", "d", "s", "a", "t">>>>, collection), aoi),
                 FormatPlain(year)), Format02d(month)), Format02d(day))

\* get_landsat_path(aoi, *parse_landsat_path(product_filename))
LandsatPath(aoi, product_filename) ==
  LET r == parse_landsat_path(product_filename)
  IN IF r.status = "raised" THEN r
     ELSE OkRet(get_landsat_path(aoi, r.value.collection, r.value.year,
                                 r.value.month, r.value.day))

\* ------------------------------------------------------------ filepaths.py: get_prefix
\* The argument of ProductTypeNotSupported(...): a plain string literal,
\* braces and all.
NotSupportedMessage ==
  <<"{", "p", "r", "o", "d", "u", "c", "t", "_", "t", "y", "p", "e", "}", " ", "p",
        "r", "o", "d", "u", "c", "t", " ", "t", "y", "p", "e", " ", "n", "o", "t",
        " ", "s", "u", "p", "p", "o", "r", "t", "e", "d">>

\* get_prefix(product_filename, product_type, aoi): a Path is true, so
\* "if not out_path" is taken exactly when neither branch ran.
get_prefix(product_filename, product_type, aoi) ==
  IF lower(product_type) = <<"s", "2">> THEN S2Path(product_filename)
  ELSE IF lower(product_type) = <<"s", "3">> THEN S3Path(aoi, product_filename)
  ELSE ErrRet("ProductTypeNotSupported", NotSupportedMessage)

\* ------------------------------------------------------------ filepaths.py: the calls made
\* The date fields callers' filenames carry: any digits pass the grammar.
Years == {<<"2", "0", "2", "3">>, <<"0", "9", "9", "9">>, <<"0", "0", "0", "0">>,
      <<"9", "9", "9", "9">>}
Months == {<<"0", "1">>, <<"1", "2">>, <<"0", "0">>}
Days == {<<"1", "5">>, <<"0", "5">>, <<"9", "9">>}

S2Name(level, y, m, d) ==
  <<"S", "2", "A", "_", "M", "S", "I">> \o level \o <<"_">> \o y \o m \o d
    \o <<"T", "1", "0", "3", "4", "2", "1", "_", "N", "0", "5", "0", "9", "_", "R",
          "1", "0", "8", "_", "T", "3", "2", "T", "Q", "M", "_", "2", "0", "2", "3",
          "0", "1", "1", "5", "T", "1", "3", "4", "5", "0", "0", ".", "S", "A", "F",
          "E">>

S3Name(sensor, level, y, m, d) ==
  <<"S", "3", "B", "_">> \o sensor \o <<"_">> \o level \o <<"_", "E", "F", "R", "_",
        "_", "_", "_">> \o y \o m \o d
    \o <<"T", "1", "0", "3", "4", "2", "1", "_", "x", ".", "S", "E", "N", "3">>

LandsatName(collection, y, m, d) ==
  <<"L", "C", "0", "8", "_">> \o collection \o <<"_", "1", "9", "0", "0", "2", "4",
        "_">> \o y \o m \o d
    \o <<"_", "2", "0", "2", "0", "0", "8", "2", "2", "_", "0", "2", "_", "T", "1">>

\* A filename with the date fields it was written with (none: no grammar
\* accepts it).
Product(family, name, y, m, d) ==
  [family |-> family, filename |-> name, year |-> y, month |-> m, day |-> d]

Products ==
  {Product("s2", S2Name(l, y, m, d), y, m, d) :
     l \in {<<"L", "1", "C">>, <<"L", "2", "A">>}, y \in Years, m \in Months,
           d \in Days}
  \cup {Product("s3", S3Name(sn, l, y, m, d), y, m, d) :
     sn \in {<<"O", "L">>, <<"S", "L">>}, l \in {<<"1">>}, y \in Years, m \in Months,
           d \in Days}
  \cup {Product("landsat", LandsatName(c, y, m, d), y, m, d) :
     c \in {<<"L", "1", "T", "P">>, <<>>}, y \in Years, m \in Months, d \in Days}
  \cup {Product("none", <<"f", "o", "o", ".", "t", "i", "f">>, <<>>, <<>>, <<>>)}

ProductTypes ==
  {<<"s", "2">>, <<"S", "2">>, <<"s", "3">>, <<"S", "3">>,
   <<"g", "e", "o", "t", "i", "f", "f">>, <<"l", "a", "n", "d", "s", "a", "t">>}
Aois == {<<>>, <<"e", "u", "r", "o", "p", "e">>}

PathCall(op, prod, product_type, aoi) ==
  [op |-> op, filename |-> prod.filename, product_type |-> product_type,
   aoi |-> aoi, family |-> prod.family, year |-> prod.year,
   month |-> prod.month, day |-> prod.day]

\* The functions of filepaths.py keep no state and touch nothing of the
\* driver: a behaviour is one call of one of them.
PathInit ==
  /\ store = [k \in Keys |-> NoBlob]
  /\ diskFiles = [k \in Keys |-> Absent]
  /\ diskDirs = {}
  /\ pc = "idle"
  /\ call = NoCall
  /\ ret = NoRet
  /\ lsf = NoLsf
  /\ i = 0
  /\ queue = <<>>
  /\ stack = <<>>
  /\ att = NoAtt
  /\ xfers = <<>>
  /\ flt = <<>>
  /\ faults = 0
  /\ ncalls = 0
  /\ store0 = store
  /\ disk0 = diskFiles
  /\ prev = NoPrev

driver == <<store, diskFiles, diskDirs, pc, lsf, i, queue, stack, att, xfers,
            flt, faults, ncalls, store0, disk0, prev>>

CallGetPrefix ==
  /\ call = NoCall
  /\ \E prod \in Products, t \in ProductTypes, aoi \in Aois :
       /\ call' = PathCall("get_prefix", prod, t, aoi)
       /\ ret' = get_prefix(prod.filename, t, aoi)
  /\ UNCHANGED driver

CallS2Path ==
  /\ call = NoCall
  /\ \E prod \in Products :
       /\ call' = PathCall("get_s2_path", prod, <<>>, <<>>)
       /\ ret' = S2Path(prod.filename)
  /\ UNCHANGED driver

CallS3Path ==
  /\ call = NoCall
  /\ \E prod \in Products, aoi \in Aois :
       /\ call' = PathCall("get_s3_path", prod, <<>>, aoi)
       /\ ret' = S3Path(aoi, prod.filename)
  /\ UNCHANGED driver

CallLandsatPath ==
  /\ call = NoCall
  /\ \E prod \in Products, aoi \in Aois :
       /\ call' = PathCall("get_landsat_path", prod, <<>>, aoi)
       /\ ret' = LandsatPath(aoi, prod.filename)
  /\ UNCHANGED driver

PathNext == CallGetPrefix \/ CallS2Path \/ CallS3Path \/ CallLandsatPath

PathSpec == PathInit /\ [][PathNext]_vars

\* ------------------------------------------------------------ what the claims speak of
Stored(st) == {k \in Keys : st[k] # NoBlob}
Finished == pc = "idle" /\ ret.status \in {"ok", "raised"}
Returned == pc = "idle" /\ ret.status = "ok"
Raised == pc = "idle" /\ ret.status = "raised"

\* The destinations of the leaf files of an upload, in traversal order.
RECURSIVE LeafDests(_, _), LeafDestsOf(_, _)
LeafDests(path_local, carry) ==
  IF is_dir(path_local \o carry)
  THEN LeafDestsOf(path_local, GlobCarries(path_local, path_local \o carry))
  ELSE <<Dest(path_local, carry)>>
LeafDestsOf(path_local, carries) ==
  IF carries = <<>> THEN <<>>
  ELSE LeafDests(path_local, Head(carries)) \o LeafDestsOf(path_local, Tail(carries))

\* The files of the call's traversal, in its order.
Traversal ==
  IF call.op = "download" THEN RecursiveListing(store0, call.prefix)
  ELSE IF call.op = "upload" THEN LeafDests(call.local, <<>>)
  ELSE <<>>

\* The files the transfer events name, in the order they first appear.
RECURSIVE FilesOf(_)
FilesOf(evs) ==
  IF evs = <<>> THEN <<>>
  ELSE LET front == FilesOf(SubSeq(evs, 1, Len(evs) - 1))
           f == evs[Len(evs)].f
       IN IF \E n \in 1..Len(front) : front[n] = f THEN front ELSE Append(front, f)

Resolved == {"ok", "skip", "fail"}

\* ------------------------------------------------------------ C1
\* C1: in every retry loop (download's read, _upload_file's write,
\* list_files' listing) at most retries + 1 attempts are made; every attempt
\* before the last failed transiently; an attempt that succeeds ends the loop
\* in success, so k <= retries transient failures followed by a success
\* succeed; and a loop that raises a transient error has made exactly
\* retries + 1 attempts and raises the error of its last attempt, which is
\* then what the call raises.
C1_RetryPolicy ==
  att.site \in {"read", "write", "list"} =>
    LET n == Len(att.outs)
    IN /\ n <= att.retries + 1
       /\ \A m \in 1..(n - 1) : att.outs[m] \in TransientErrors
       /\ att.res = "pending" => \A m \in 1..n : att.outs[m] \in TransientErrors
       /\ (n > 0 /\ att.outs[n] = "ok") <=> att.res = "ok"
       /\ (n > 0 /\ att.outs[n] \in TransientErrors /\ n <= att.retries)
            => att.res = "pending"
       /\ (att.res = "raised" /\ att.err \in TransientErrors)
            => /\ n = att.retries + 1
               /\ att.err = att.outs[n]
               /\ Raised /\ ret.err = att.outs[n]

\* k = retries + 1 >= 2 transient failures: the read was attempted k times
\* and the last error was raised.
C1_Witness ==
  /\ att.site = "read" /\ att.retries >= 1
  /\ att.res = "raised" /\ att.err \in TransientErrors
  /\ Len(att.outs) = att.retries + 1
  /\ att.outs[1] # att.outs[Len(att.outs)]

\* ------------------------------------------------------------ C2
\* C2: when download raises because the retries of a file are exhausted, no
\* file exists at the local output path of that file.
C2_PartialFileDeleted ==
  (call.op = "download" /\ Raised /\ att.site = "read" /\ att.res = "raised"
     /\ att.err \in TransientErrors)
    => diskFiles[att.key] = Absent

\* ------------------------------------------------------------ C3
\* C3: exists(p) returns true if and only if some stored key equals p or
\* starts with p followed by "/".
C3_ExistsBySegment ==
  (call.op = "exists" /\ Returned)
    => (ret.value <=> \E k \in Stored(store) :
                         k = call.prefix \/ StartsWith(k, call.prefix \o <<Slash>>))

\* ------------------------------------------------------------ C4
\* The driver call was made with the default retry count.
DefaultCall ==
  call.op \in {"download", "upload", "list_files"} => call.retries = DefaultRetries

\* C4 as stated: with the default retry count, a single transient failure of
\* a client call does not propagate to the caller, whichever call it is.
C4_EveryCallRetried ==
  (Finished /\ DefaultCall /\ Len(flt) = 1 /\ flt[1].err \in TransientErrors)
    => ~(ret.status = "raised" /\ ret.err = flt[1].err)

\* C4 as amended: with the default retry count a single transient failure of
\* download's read, _upload_file's write or list_files' listing does not
\* propagate; a failure of any other client call (the list_blobs of exists,
\* also when list_files or _upload_file calls exists, the list_blobs and
\* delete_blob of delete, the start_copy_from_url of copy) is raised to the
\* caller by the one attempt made.
C4_OnlyLoopsRetried ==
  /\ (Finished /\ DefaultCall /\ Len(flt) = 1 /\ flt[1].err \in TransientErrors
        /\ flt[1].site \in {"read", "write", "list"})
       => ~(ret.status = "raised" /\ ret.err \in TransientErrors)
  /\ \A n \in 1..Len(flt) :
       flt[n].site \in {"exists", "delete", "copy"}
         => n = Len(flt) /\ Raised /\ ret.err = flt[n].err

\* One transient failure of list_files' own exists call reached the caller.
C4_Witness ==
  /\ call.op = "list_files" /\ call.retries = DefaultRetries /\ Raised
  /\ Len(flt) = 1 /\ flt[1].site = "exists" /\ flt[1].err \in TransientErrors
  /\ ret.err = flt[1].err

\* ------------------------------------------------------------ C5
\* C5: the retries argument of an upload or download call governs every retry
\* loop the call runs: no loop makes more than retries + 1 attempts, and a
\* loop that raises a transient error has made retries + 1 attempts.
C5_CallerRetriesGovern ==
  (call.op \in {"upload", "download"} /\ att.site \in {"read", "write", "list"})
    => /\ Len(att.outs) <= call.retries + 1
       /\ (att.res = "raised" /\ att.err \in TransientErrors)
            => Len(att.outs) = call.retries + 1

\* ------------------------------------------------------------ C6
\* C6: list_files(prefix), not recursive, when no stored key lies under
\* prefix + "/", returns [prefix] if prefix is a stored key and [] otherwise.
C6_LeafListing ==
  (call.op = "list_files" /\ ~call.recursive /\ Returned
     /\ ~\E k \in Stored(store) : StartsWith(k, PrefixWithSlash(call.prefix)))
    => ret.value = IF call.prefix \in Stored(store) THEN <<call.prefix>> ELSE <<>>

\* ------------------------------------------------------------ C7
\* C7: upload and download transfer their files one at a time in traversal
\* order, and stop at the first file that raises: after a file's failure no
\* event of any file follows and the call has raised; an attempt on a file is
\* made only when every file seen before it has resolved (ok, skip or fail);
\* and the files are taken in the order of the traversal, none left out.
C7_OneAtATimeAbortOnFirst ==
  call.op \in {"upload", "download"} =>
    /\ \A n \in 1..Len(xfers) :
         /\ \A m \in 1..(n - 1) : xfers[m].ev # "fail"
         /\ xfers[n].ev = "attempt" =>
              \A m \in 1..(n - 1) :
                xfers[m].f # xfers[n].f =>
                  \E r \in m..(n - 1) :
                    xfers[r].f = xfers[m].f /\ xfers[r].ev \in Resolved
    /\ (xfers # <<>> /\ xfers[Len(xfers)].ev = "fail") => Raised
    /\ LET seen == FilesOf(xfers)
       IN /\ Len(seen) <= Len(Traversal)
          /\ seen = SubSeq(Traversal, 1, Len(seen))

\* A download of three files raised on its second file, after the first was
\* written, with the third still to come.
C7_Witness ==
  /\ call.op = "download" /\ Raised
  /\ Len(Traversal) = 3 /\ Len(FilesOf(xfers)) = 2
  /\ xfers[Len(xfers)].ev = "fail"
  /\ \E n \in 1..Len(xfers) : xfers[n].ev = "ok"

\* ------------------------------------------------------------ C8
\* C8: with overwrite=False, upload issues no write for a destination that
\* was stored when the call started and leaves every stored object as it was;
\* download issues no read for a local path that existed when the call
\* started and leaves every such file as it was; and a call all of whose
\* targets were present returns without raising (its client calls answering),
\* both stores unchanged, however often it is repeated.
C8_NoOverwriteIsNoop ==
  /\ (call.op = "upload" /\ ~call.overwrite) =>
       /\ \A n \in 1..Len(xfers) :
            xfers[n].ev = "attempt" => store0[xfers[n].f] = NoBlob
       /\ \A k \in Stored(store0) : store[k] = store0[k]
       /\ (Finished /\ flt = <<>>
             /\ \A n \in 1..Len(Traversal) : Traversal[n] \in Stored(store0))
            => Returned /\ store = store0 /\ diskFiles = disk0
  /\ (call.op = "download" /\ ~call.overwrite) =>
       /\ \A n \in 1..Len(xfers) :
            xfers[n].ev = "attempt" => disk0[xfers[n].f] = Absent
       /\ \A k \in Keys : disk0[k] # Absent => diskFiles[k] = disk0[k]
       /\ (Finished /\ flt = <<>>
             /\ \A n \in 1..Len(Traversal) : disk0[Traversal[n]] # Absent)
            => Returned /\ store = store0 /\ diskFiles = disk0

\* The same download was made again with overwrite=False over files a first
\* call had left (one of them cut short): it skipped them and returned.
C8_Witness ==
  /\ call.op = "download" /\ ~call.overwrite /\ ncalls = 2 /\ Returned
  /\ Len(Traversal) = 2 /\ Len(xfers) = 2
  /\ \A n \in 1..2 : xfers[n].ev = "skip"
  /\ \E k \in Keys : disk0[k] = Truncated /\ diskFiles[k] = Truncated

\* ------------------------------------------------------------ C9
\* C9: upload of a directory returns one flat sequence with one locator per
\* leaf file of the tree, in traversal order.
C9_FlatLocators ==
  (call.op = "upload" /\ is_dir(call.local) /\ Returned)
    => /\ ret.value.t = "list"
       /\ Len(ret.value.items) = Len(Traversal)
       /\ \A n \in 1..Len(ret.value.items) :
            ret.value.items[n] = UrlVal(Traversal[n])

\* ------------------------------------------------------------ C10
\* C10: on the same container, exists(p) is true exactly when
\* list_files(p, recursive=True) is not empty: what exists returned agrees
\* with the recursive listing, and what the recursive listing returned agrees
\* with exists.
C10_ExistsIffListed ==
  /\ (call.op = "exists" /\ Returned)
       => (ret.value <=> RecursiveListing(store, call.prefix) # <<>>)
  /\ (call.op = "list_files" /\ call.recursive /\ Returned)
       => (ret.value # <<>> <=> exists(store, call.prefix))

\* exists("a/b") returned true with nothing stored at or under a/b but a/bc,
\* which the recursive listing of a/b returns too.
C10_Witness ==
  /\ call.op = "exists" /\ Returned /\ ret.value = TRUE
  /\ call.prefix = N_ab /\ Stored(store) = {N_abc}

\* ------------------------------------------------------------ C11
\* C11 as stated: when a failure outside the transient category is raised
\* during an attempt of download's read, _upload_file's write or list_files'
\* listing, it reaches the caller and exactly one attempt has been made,
\* whatever retries is.
C11_OneAttempt ==
  (att.site \in {"read", "write", "list"} /\ att.res = "raised"
     /\ att.err \in OtherErrors)
    => Len(att.outs) = 1 /\ Raised /\ ret.err = att.err

\* C11 as amended: a failure outside the transient category is never
\* retried: the attempt that raised it is the last attempt of its loop and
\* its error is what the call raises; the attempts made by then are that one
\* and the transient failures retried before it (at most retries of them),
\* so exactly one when it is the first attempt that fails this way.
C11_NotRetried ==
  att.site \in {"read", "write", "list"} =>
    \A n \in 1..Len(att.outs) :
      att.outs[n] \in OtherErrors =>
        /\ n = Len(att.outs)
        /\ n <= att.retries + 1
        /\ \A m \in 1..(n - 1) : att.outs[m] \in TransientErrors
        /\ att.res = "raised" /\ att.err = att.outs[n]
        /\ Raised /\ ret.err = att.outs[n]

\* An upload with retries = 2 failed transiently once and then with a local
\* error on its second attempt, which was raised with a retry still left.
C11_Witness ==
  /\ att.site = "write" /\ att.retries = 2 /\ Raised
  /\ Len(att.outs) = 2
  /\ att.outs[1] \in TransientErrors /\ att.outs[2] \in OtherErrors
  /\ ret.err = att.outs[2]

\* ------------------------------------------------------------ C12
\* C12: delete(prefix) removes the stored keys that start with prefix and
\* nothing else: at every step a key that does not start with prefix is
\* stored with the content it had, and no key gains or changes content; when
\* delete returns, no key that starts with prefix is stored and
\* exists(prefix) is false; and when no key starts with prefix, delete (its
\* client call answering) returns without error, the store unchanged.
C12_DeleteByPrefix ==
  call.op = "delete" =>
    /\ \A k \in Keys :
         /\ ~StartsWith(k, call.prefix) => store[k] = store0[k]
         /\ store[k] \in {store0[k], NoBlob}
    /\ Returned =>
         /\ \A k \in Keys : StartsWith(k, call.prefix) => store[k] = NoBlob
         /\ ~exists(store, call.prefix)
    /\ (Finished /\ flt = <<>>) => Returned
    /\ (Finished /\ flt = <<>> /\ ~\E k \in Stored(store0) : StartsWith(k, call.prefix))
         => Returned /\ store = store0

\* delete("a/b/s") of a full container returned: a/b/s/c is gone, and a/b,
\* a/bc and a/b/c are stored as before.
C12_Witness ==
  /\ call.op = "delete" /\ call.prefix = N_ab_s /\ Returned
  /\ Stored(store0) = Keys
  /\ Stored(store) = Keys \ {N_ab_s_c}
  /\ \A k \in Stored(store) : store[k] = store0[k]

\* ------------------------------------------------------------ C13
\* Whether the string sub occurs in s: a message names a value when the
\* value occurs in it.
Contains(s, sub) ==
  \E p \in 1..(Len(s) - Len(sub) + 1) : SubSeq(s, p, p + Len(sub) - 1) = sub

\* C13: get_prefix dispatches on product_type whatever its letter case ("s2"
\* and "S2" to the Sentinel-2 functions, "s3" and "S3" to the Sentinel-3
\* functions), and for every other product_type it raises
\* ProductTypeNotSupported with a message in which the product_type that was
\* passed occurs.
C13_NamesOffendingType ==
  call.op = "get_prefix" =>
    /\ lower(call.product_type) = <<"s", "2">> => ret = S2Path(call.filename)
    /\ lower(call.product_type) = <<"s", "3">> => ret = S3Path(call.aoi, call.filename)
    /\ lower(call.product_type) \notin {<<"s", "2">>, <<"s", "3">>} =>
         /\ ret.status = "raised" /\ ret.err = "ProductTypeNotSupported"
         /\ Contains(ret.value, call.product_type)

\* ------------------------------------------------------------ C14
\* C14: for a filename the Sentinel-2, Sentinel-3 or Landsat grammar accepts,
\* the last three segments of the derived path are the year as the 4 digits,
\* the month as the 2 digits and the day as the 2 digits that stand in the
\* filename.
C14_DateDigits ==
  (call.op \in {"get_prefix", "get_s2_path", "get_s3_path", "get_landsat_path"}
     /\ ret.status = "ok")
    => LET n == Len(ret.value)
       IN /\ n >= 3
          /\ Len(ret.value[n - 2]) = 4 /\ ret.value[n - 2] = call.year
          /\ Len(ret.value[n - 1]) = 2 /\ ret.value[n - 1] = call.month
          /\ Len(ret.value[n]) = 2 /\ ret.value[n] = call.day

\* ------------------------------------------------------------ C15
\* C15: after upload(f, P) of a local file f has returned (overwrite left at
\* its default, true), a download of the key P/name(f) that returns, made
\* with no file at the output path or with overwrite=True, leaves at the
\* output path a file whose content is f's content, however many attempts of
\* either transfer were retried.
C15_RoundTrip ==
  (call.op = "download" /\ Returned
     /\ prev.op = "upload" /\ prev.status = "ok" /\ prev.overwrite
     /\ ~is_dir(prev.local) /\ call.prefix = Dest(prev.local, <<>>)
     /\ (call.overwrite \/ disk0[call.prefix] = Absent))
    => /\ store[call.prefix] = LocalContent
       /\ diskFiles[call.prefix] = LocalContent

\* The upload of u/b to a/b failed once and was retried, and the download of
\* a/b that followed failed once and was retried: a/b is on disk with the
\* content of u/b.
C15_Witness ==
  /\ call.op = "download" /\ Returned /\ call.prefix = N_ab
  /\ prev.op = "upload" /\ prev.status = "ok" /\ prev.overwrite
  /\ Len(flt) = 1 /\ flt[1].site = "read" /\ faults = MaxFaults - 2
  /\ diskFiles[N_ab] = LocalContent

\* ------------------------------------------------------------ C16
\* C16: with overwrite=False, upload skips a leaf file only if its
\* destination is a stored key, so when upload(overwrite=False) has returned
\* every leaf file's destination is a stored key.
C16_SkipOnlyIfStored ==
  (call.op = "upload" /\ ~call.overwrite) =>
    /\ \A n \in 1..Len(xfers) :
         xfers[n].ev = "skip" => xfers[n].f \in Stored(store0)
    /\ Returned =>
         \A n \in 1..Len(Traversal) : Traversal[n] \in Stored(store)

\* ------------------------------------------------------------ C17
\* C17: when a download with overwrite=False returns, after any number of
\* earlier downloads of the same prefix into the same root that was empty at
\* first, the container unchanged, every file under the root has the content
\* of its blob.
C17_NoStaleLocalFile ==
  (call.op = "download" /\ ~call.overwrite /\ Returned) =>
    \A k \in Keys : diskFiles[k] # Absent => diskFiles[k] = store[k]

\* ------------------------------------------------------------ C18
\* C18: download, exists and list_files leave the container as it was when
\* the call started, at every step and under every outcome; and upload with
\* overwrite=False leaves every key that was stored when the call started
\* with the content it had.
C18_StoreFrame ==
  /\ call.op \in {"download", "exists", "list_files"} => store = store0
  /\ (call.op = "upload" /\ ~call.overwrite) =>
       \A k \in Stored(store0) : store[k] = store0[k]

\* upload(overwrite=False) of the directory t/b returned after a failed and
\* retried write: a/b/c is new, and a/b/s/c, stored before, has the content
\* it had.
C18_Witness ==
  /\ call.op = "upload" /\ ~call.overwrite /\ Returned
  /\ \E n \in 1..Len(flt) : flt[n].site = "write"
  /\ store0[N_ab_s_c] = "v1" /\ store[N_ab_s_c] = "v1"
  /\ store0[N_ab_c] = NoBlob /\ store[N_ab_c] = LocalContent

=============================================================================
